---- MODULE Spec2Model ----
(***************************************************************************)
(* Model of server.py: six stateless POST handlers that validate a JSON    *)
(* request, call the Gemini completion API (call_gemini_api) and, for      *)
(* suggest_video, the YouTube search API (search_youtube_videos), and      *)
(* reshape the result into a JSON response.                                *)
(*                                                                         *)
(* One behaviour of the model is a sequence of requests.  A state holds    *)
(* the last request handled: the route, the request body, the upstream     *)
(* responses consumed, the outbound calls issued in order, the values the  *)
(* two helper functions returned and the HTTP response.                    *)
(***************************************************************************)
EXTENDS Integers, Sequences, FiniteSets, TLC

VARIABLES route, data, youtube, gemini, calls, video_info, gemini_ret, status, body

vars == <<route, data, youtube, gemini, calls, video_info, gemini_ret, status, body>>

----------------------------------------------------------------------------
(* Python / JSON values.  A str is a sequence of units; a unit is one      *)
(* character (or an indivisible run of characters), or one serialized      *)
(* JSON document.                                                          *)

None == [t |-> "None"]
Str(s) == [t |-> "str", s |-> s]
List(xs) == [t |-> "list", xs |-> xs]
Dict(d) == [t |-> "dict", d |-> d]

Ch(c) == [u |-> "ch", c |-> c]
Doc(v) == [u |-> "doc", v |-> v]
Chars(seq) == [i \in DOMAIN seq |-> Ch(seq[i])]
Word(w) == <<Ch(w)>>

\* Python truthiness: bool(v)
Truthy(v) ==
    CASE v.t = "None" -> FALSE
      [] v.t = "str"  -> v.s # <<>>
      [] v.t = "list" -> v.xs # <<>>
      [] v.t = "dict" -> DOMAIN v.d # {}

\* dict.get(key, default) on a value known to be a dict
Get(v, key, default) == IF key \in DOMAIN v.d THEN v.d[key] ELSE default

\* outcome of evaluating a Python expression: a value, or a raised exception
Return(v) == [exc |-> "none", val |-> v]
Raise(e) == [exc |-> e, val |-> None]

----------------------------------------------------------------------------
(* str methods                                                             *)

Whitespace == {Ch(" "), Ch("\n"), Ch("\t"), Ch("\r")}

RECURSIVE LStrip(_)
LStrip(s) == IF s # <<>> /\ Head(s) \in Whitespace THEN LStrip(Tail(s)) ELSE s

RECURSIVE RStrip(_)
RStrip(s) ==
    IF s # <<>> /\ s[Len(s)] \in Whitespace THEN RStrip(SubSeq(s, 1, Len(s) - 1)) ELSE s

\* str.strip()
Strip(s) == RStrip(LStrip(s))

\* str.replace(old, ''): the non-overlapping occurrences of old, left to right
RECURSIVE Replace(_, _)
Replace(s, old) ==
    IF Len(s) < Len(old) THEN s
    ELSE IF SubSeq(s, 1, Len(old)) = old
         THEN Replace(SubSeq(s, Len(old) + 1, Len(s)), old)
         ELSE <<Head(s)>> \o Replace(Tail(s), old)

UpperToLower ==
    [c \in {"C", "E", "L", "O", "R", "S", "T", "U", "X", "I", "A"} |->
        CASE c = "C" -> "c" [] c = "E" -> "e" [] c = "L" -> "l" [] c = "O" -> "o"
          [] c = "R" -> "r" [] c = "S" -> "s" [] c = "T" -> "t" [] c = "U" -> "u"
          [] c = "X" -> "x" [] c = "I" -> "i" [] c = "A" -> "a"]

\* str.lower()
Lower(s) ==
    [i \in DOMAIN s |->
        IF s[i].u = "ch" /\ s[i].c \in DOMAIN UpperToLower
        THEN Ch(UpperToLower[s[i].c]) ELSE s[i]]

\* sub in s
Contains(s, sub) ==
    \E i \in 0..(Len(s) - Len(sub)) : SubSeq(s, i + 1, i + Len(sub)) = sub

\* json.loads(s): s is one serialized document, surrounding whitespace allowed
JsonLoads(s) ==
    LET core == Strip(s) IN
    IF Len(core) = 1 /\ core[1].u = "doc" THEN Return(core[1].v)
    ELSE Raise("JSONDecodeError")

----------------------------------------------------------------------------
(* Upstream HTTP responses.  net is "ok" when the exchange completed, else *)
(* the transport failure; http is the status code; json is the decoded     *)
(* body, or NotJson when the body is no JSON document.                     *)

NotJson == [t |-> "notjson"]
HttpResponse(code, json) == [net |-> "ok", http |-> code, json |-> json]
TransportFailure(kind) == [net |-> kind, http |-> 0, json |-> NotJson]

\* marks an upstream that the request never reached
NoCall == [net |-> "nocall", http |-> 0, json |-> NotJson]
NotCalled == [exc |-> "notcalled", val |-> None]

\* the backquote character, written by name
BQ == "backquote"

\* '```json\n' and '\n```'
FenceOpen == Chars(<<BQ, BQ, BQ, "j", "s", "o", "n", "\n">>)
FenceClose == Chars(<<"\n", BQ, BQ, BQ>>)

\* call_gemini_api(prompt, response_schema) against the upstream response resp.
\* requests.post, raise_for_status and response.json() fail with a
\* RequestException (line 77); result["candidates"][0]["content"]["parts"][0]["text"]
\* is a subscript chain, and a missing key raises KeyError, which no clause catches.
call_gemini_api(resp, response_schema) ==
    IF resp.net # "ok" THEN Return(None)
    ELSE IF resp.http >= 400 THEN Return(None)
    ELSE IF resp.json = NotJson THEN Return(None)
    ELSE LET result == resp.json IN
    IF result.t # "dict" THEN Raise("AttributeError")
    ELSE IF ~Truthy(Get(result, "candidates", None)) THEN Return(None)
    ELSE LET first == result.d.candidates.xs[1] IN
    IF ~Truthy(Get(first, "content", None)) THEN Return(None)
    ELSE IF ~Truthy(Get(first.d.content, "parts", None)) THEN Return(None)
    ELSE LET part == first.d.content.d.parts.xs[1] IN
    IF "text" \notin DOMAIN part.d THEN Raise("KeyError")
    ELSE LET text_response == part.d.text.s IN
    IF response_schema
    THEN LET clean_json_string ==
                 Strip(Replace(Replace(text_response, FenceOpen), FenceClose))
             parsed == JsonLoads(clean_json_string)
         IN IF parsed.exc = "JSONDecodeError" THEN Return(None) ELSE parsed
    ELSE Return(Str(Strip(text_response)))

----------------------------------------------------------------------------
(* search_youtube_videos                                                   *)

Lecture == Chars(<<"l", "e", "c", "t", "u", "r", "e">>)
Tutorial == Chars(<<"t", "u", "t", "o", "r", "i", "a", "l">>)
Course == Chars(<<"c", "o", "u", "r", "s", "e">>)

\* the keyword test without .lower()
LooksLikeLectureCaseSensitive(video_title) ==
    \/ Contains(video_title, Lecture)
    \/ Contains(video_title, Tutorial)
    \/ Contains(video_title, Course)

\* the condition of the if inside the loop
LooksLikeLecture(video_title) ==
    \/ Contains(Lower(video_title), Lecture)
    \/ Contains(Lower(video_title), Tutorial)
    \/ Contains(Lower(video_title), Course)

WatchUrl(video_id) == Word("https://www.youtube.com/watch?v=") \o video_id

\* item['id']['videoId'] and item['snippet']['title'] can both be read
HasIdAndTitle(item) ==
    /\ item.t = "dict"
    /\ "id" \in DOMAIN item.d /\ item.d.id.t = "dict" /\ "videoId" \in DOMAIN item.d.id.d
    /\ "snippet" \in DOMAIN item.d /\ item.d.snippet.t = "dict"
    /\ "title" \in DOMAIN item.d.snippet.d

VideoOf(item) ==
    Dict([title |-> item.d.snippet.d.title,
          url |-> Str(WatchUrl(item.d.id.d.videoId.s))])

\* the for loop: the video it returns, None when it runs to its end
RECURSIVE ScanItems(_)
ScanItems(items) ==
    IF items = <<>> THEN Return(None)
    ELSE LET item == Head(items) IN
         IF ~HasIdAndTitle(item) THEN Raise("KeyError")
         ELSE IF LooksLikeLecture(item.d.snippet.d.title.s) THEN Return(VideoOf(item))
         ELSE ScanItems(Tail(items))

\* the body of "if results and results.get('items')"
SelectVideo(items) ==
    LET found == ScanItems(items) IN
    IF found.exc # "none" THEN found
    ELSE IF found.val # None THEN found
    ELSE Return(VideoOf(items[1]))

\* search_youtube_videos(query) against the upstream response resp; every
\* exception is caught (lines 123-128) and turned into None
search_youtube_videos(resp) ==
    IF resp.net # "ok" THEN None
    ELSE IF resp.http >= 400 THEN None
    ELSE IF resp.json = NotJson THEN None
    ELSE LET results == resp.json IN
    IF ~Truthy(results) THEN None
    ELSE IF results.t # "dict" THEN None
    ELSE IF ~Truthy(Get(results, "items", None)) THEN None
    ELSE LET picked == SelectVideo(results.d.items.xs) IN
         IF picked.exc # "none" THEN None ELSE picked.val

----------------------------------------------------------------------------
(* The Flask routes.  A route yields the response and what it did on the   *)
(* way: the outbound calls in order, the upstream responses it consumed    *)
(* and the values its helpers returned.                                    *)

\* Flask's answer to an exception that leaves the view function
HtmlErrorPage == [t |-> "html"]

\* the request is sent again after the first attempt
IssueTwice(cs, api) == cs \o <<api, api>>

\* requests.post / requests.get is invoked once more
Issue(cs, api) == Append(cs, api)

Result(st, b, cs, y, g, vi, gr) ==
    [status |-> st, body |-> b, calls |-> cs, youtube |-> y, gemini |-> g,
     video_info |-> vi, gemini_ret |-> gr]

\* data.get(field, '') raised: data is no dict
NoDict == Result(500, HtmlErrorPage, <<>>, NoCall, NoCall, NotCalled, NotCalled)

\* return jsonify({"error": message}), 400
BadRequest(message) ==
    Result(400, Dict([error |-> Str(Word(message))]), <<>>, NoCall, NoCall,
           NotCalled, NotCalled)

extract_title_route(d, g) ==
    IF d.t # "dict" THEN NoDict
    ELSE LET syllabus_text == Get(d, "syllabus_text", Str(<<>>)) IN
    IF ~Truthy(syllabus_text) THEN BadRequest("Syllabus text is required")
    ELSE LET title == call_gemini_api(g, FALSE)
             cs == Issue(<<>>, "gemini") IN
    IF title.exc # "none" THEN Result(500, HtmlErrorPage, cs, NoCall, g, NotCalled, title)
    ELSE Result(200, Dict([title |-> title.val]), cs, NoCall, g, NotCalled, title)

\* [item.get('topic') for item in topics_raw if item.get('topic')]
RECURSIVE TopicsOf(_)
TopicsOf(items) ==
    IF items = <<>> THEN Return(<<>>)
    ELSE LET item == Head(items) IN
         IF item.t # "dict" THEN Raise("AttributeError")
         ELSE LET rest == TopicsOf(Tail(items)) IN
              IF rest.exc # "none" THEN rest
              ELSE IF Truthy(Get(item, "topic", None))
                   THEN Return(<<Get(item, "topic", None)>> \o rest.val)
                   ELSE rest

\* the comprehension without its "if item.get('topic')" filter
ExtractTopicsUnfiltered(topics_raw) ==
    IF ~Truthy(topics_raw) THEN Return(<<>>)
    ELSE IF topics_raw.t = "list" /\ \A i \in DOMAIN topics_raw.xs : topics_raw.xs[i].t = "dict"
    THEN Return([i \in DOMAIN topics_raw.xs |-> Get(topics_raw.xs[i], "topic", None)])
    ELSE Raise("AttributeError")

\* ... if topics_raw else []
ExtractTopics(topics_raw) ==
    IF ~Truthy(topics_raw) THEN Return(<<>>)
    ELSE IF topics_raw.t = "list" THEN TopicsOf(topics_raw.xs)
    ELSE Raise("AttributeError")

extract_topics_route(d, g) ==
    IF d.t # "dict" THEN NoDict
    ELSE LET syllabus_text == Get(d, "syllabus_text", Str(<<>>)) IN
    IF ~Truthy(syllabus_text) THEN BadRequest("Syllabus text is required")
    ELSE LET topics_raw == call_gemini_api(g, TRUE)
             cs == Issue(<<>>, "gemini") IN
    IF topics_raw.exc # "none"
    THEN Result(500, HtmlErrorPage, cs, NoCall, g, NotCalled, topics_raw)
    ELSE LET topics == ExtractTopics(topics_raw.val) IN
    IF topics.exc # "none"
    THEN Result(500, HtmlErrorPage, cs, NoCall, g, NotCalled, topics_raw)
    ELSE Result(200, Dict([topics |-> List(topics.val)]), cs, NoCall, g, NotCalled,
                topics_raw)

FailedToSuggest ==
    Dict([title |-> Str(Word("Failed to suggest video")), url |-> Str(Word("#"))])

suggest_video_route(d, y, g) ==
    IF d.t # "dict" THEN NoDict
    ELSE LET topic == Get(d, "topic", Str(<<>>)) IN
    IF ~Truthy(topic) THEN BadRequest("Topic is required")
    ELSE LET video_found == search_youtube_videos(y)
             searched == Issue(<<>>, "youtube") IN
    IF Truthy(video_found)
    THEN Result(200, Dict([title |-> video_found.d.title, url |-> video_found.d.url]),
                searched, y, NoCall, Return(video_found), NotCalled)
    ELSE LET generated_video_info == call_gemini_api(g, TRUE)
             cs == Issue(searched, "gemini") IN
    IF generated_video_info.exc # "none"
    THEN Result(500, HtmlErrorPage, cs, y, g, Return(video_found), generated_video_info)
    ELSE IF Truthy(generated_video_info.val)
    THEN IF generated_video_info.val.t # "dict"
         THEN Result(500, HtmlErrorPage, cs, y, g, Return(video_found),
                     generated_video_info)
         ELSE Result(200,
                     Dict([title |-> Get(generated_video_info.val, "title", None),
                           url |-> Get(generated_video_info.val, "url", None)]),
                     cs, y, g, Return(video_found), generated_video_info)
    ELSE Result(200, FailedToSuggest, cs, y, g, Return(video_found),
                generated_video_info)

CouldNotGenerateNotes == Str(Word("Could not generate notes for this topic."))

generate_notes_route(d, g) ==
    IF d.t # "dict" THEN NoDict
    ELSE LET topic == Get(d, "topic", Str(<<>>)) IN
    IF ~Truthy(topic) THEN BadRequest("Topic is required")
    ELSE LET notes == call_gemini_api(g, FALSE)
             cs == Issue(<<>>, "gemini") IN
    IF notes.exc # "none" THEN Result(500, HtmlErrorPage, cs, NoCall, g, NotCalled, notes)
    ELSE Result(200,
                Dict([notes |-> IF Truthy(notes.val) THEN notes.val
                                ELSE CouldNotGenerateNotes]),
                cs, NoCall, g, NotCalled, notes)

\* flashcards if flashcards else []
FlashcardsOrEmpty(flashcards) == IF Truthy(flashcards) THEN flashcards ELSE List(<<>>)

generate_flashcards_route(d, g) ==
    IF d.t # "dict" THEN NoDict
    ELSE LET topic == Get(d, "topic", Str(<<>>)) IN
    IF ~Truthy(topic) THEN BadRequest("Topic is required")
    ELSE LET flashcards == call_gemini_api(g, TRUE)
             cs == Issue(<<>>, "gemini") IN
    IF flashcards.exc # "none"
    THEN Result(500, HtmlErrorPage, cs, NoCall, g, NotCalled, flashcards)
    ELSE Result(200, Dict([flashcards |-> FlashcardsOrEmpty(flashcards.val)]),
                cs, NoCall, g, NotCalled, flashcards)

\* the conditional with its branches swapped
QuestionsOrEmptySwapped(questions) == IF Truthy(questions) THEN List(<<>>) ELSE questions

\* questions if questions else []
QuestionsOrEmpty(questions) == IF Truthy(questions) THEN questions ELSE List(<<>>)

generate_questions_route(d, g) ==
    IF d.t # "dict" THEN NoDict
    ELSE LET topic == Get(d, "topic", Str(<<>>)) IN
    IF ~Truthy(topic) THEN BadRequest("Topic is required")
    ELSE LET questions == call_gemini_api(g, TRUE)
             cs == Issue(<<>>, "gemini") IN
    IF questions.exc # "none"
    THEN Result(500, HtmlErrorPage, cs, NoCall, g, NotCalled, questions)
    ELSE Result(200, Dict([questions |-> QuestionsOrEmpty(questions.val)]),
                cs, NoCall, g, NotCalled, questions)

----------------------------------------------------------------------------
(* Inputs: request bodies and upstream responses.                          *)

\* longest items array of a YouTube response
MaxItems == 3
\* longest JSON array in a completion text
MaxEntries == 3

SeqsUpTo(S, n) == UNION {[1..k -> S] : k \in 0..n}

\* what request.get_json() can hand to a view function
RequestBodies ==
    {None, List(<<>>), Dict(<<>>),
     Dict([syllabus_text |-> Str(<<>>)]),
     Dict([syllabus_text |-> None]),
     Dict([syllabus_text |-> Str(Word("CS101: Graphs, Trees"))]),
     Dict([topic |-> Str(<<>>)]),
     Dict([topic |-> None]),
     Dict([topic |-> Str(Word("Thermodynamics"))])}

Titles ==
    {Chars(<<"I", "n", "t", "r", "o">>),
     Chars(<<"X", " ", "L", "e", "c", "t", "u", "r", "e">>),
     Chars(<<"X", " ", "E", "x", "p">>),
     Chars(<<"C", "O", "U", "R", "S", "E", "S">>),
     Chars(<<"t", "u", "t", "o", "r", "i", "a", "l">>),
     Chars(<<"l", "e", "c", "t", "u", "r">>)}

VideoId(i) == <<Ch("vid"), Ch(ToString(i))>>

Item(title, video_id) ==
    Dict([id |-> Dict([videoId |-> Str(video_id)]),
          snippet |-> Dict([title |-> Str(title)])])

\* a search result without id.videoId
ChannelItem ==
    Dict([id |-> Dict([channelId |-> Str(Word("UC1"))]),
          snippet |-> Dict([title |-> Str(Chars(<<"c", "o", "u", "r", "s", "e">>))])])

ItemLists ==
    {[i \in DOMAIN f |-> IF f[i] = <<>> THEN ChannelItem ELSE Item(f[i], VideoId(i))] :
        f \in SeqsUpTo(Titles \cup {<<>>}, MaxItems) \ {<<>>}}

YouTubeOutcomes ==
    {TransportFailure("timeout"), TransportFailure("connection"),
     HttpResponse(403, NotJson), HttpResponse(200, NotJson),
     HttpResponse(200, Dict(<<>>)),
     HttpResponse(200, Dict([items |-> List(<<>>)])),
     HttpResponse(200, Dict([kind |-> Str(Word("youtube#searchListResponse"))])),
     HttpResponse(200, List(<<Str(Word("x"))>>))}
    \cup {HttpResponse(200, Dict([items |-> List(xs)])) : xs \in ItemLists}

Graphs == Str(Word("Graphs"))
Trees == Str(Word("Trees"))

TopicEntries ==
    {Dict(<<>>), Dict([topic |-> Str(<<>>)]), Dict([topic |-> None]),
     Dict([topic |-> Graphs]), Dict([topic |-> Trees])}

FlashcardEntries ==
    {Dict([front |-> Str(Word("Q")), back |-> Str(Word("A"))]),
     Dict([front |-> Str(Word("Q"))]), Dict([back |-> Str(Word("A"))])}

QuestionEntries == {Str(Word("Q1?")), Str(Word("Q2?"))}

VideoDocs ==
    {Dict([title |-> Str(Word("Intro to Thermodynamics")),
           url |-> Str(Word("https://www.youtube.com/watch?v=rfscVS0vtbw"))]),
     Dict([title |-> Str(Word("Intro to Thermodynamics"))]),
     Dict([title |-> Str(<<>>), url |-> Str(<<>>)]),
     Dict(<<>>)}

\* documents of a shape the prompt did not ask for
OtherDocs(kind) ==
    {None, Str(Word("Graphs"))}
    \cup (IF kind = "questions" THEN {} ELSE {List(<<Str(Word("Q1?"))>>)})
    \cup (IF kind = "topics" THEN {} ELSE {List(<<Dict([topic |-> Graphs])>>)})
    \cup (IF kind = "video" THEN {} ELSE {Dict([title |-> Str(Word("T"))])})

Docs(kind) ==
    OtherDocs(kind) \cup
    CASE kind = "topics" -> {List(xs) : xs \in SeqsUpTo(TopicEntries, MaxEntries)}
      [] kind = "flashcards" -> {List(xs) : xs \in SeqsUpTo(FlashcardEntries, MaxEntries)}
      [] kind = "questions" -> {List(xs) : xs \in SeqsUpTo(QuestionEntries, MaxEntries)}
      [] kind = "video" -> VideoDocs
      [] kind = "text" -> {}

\* '```\n', a fence that names no language
BareFenceOpen == Chars(<<BQ, BQ, BQ, "\n">>)

Unfenced(v) == <<Doc(v)>>
JsonFenced(v) == FenceOpen \o <<Doc(v)>> \o FenceClose
BareFenced(v) == BareFenceOpen \o <<Doc(v)>> \o FenceClose
Padded(v) == <<Ch(" "), Doc(v), Ch("\n")>>

\* texts the completion service can put in the first part
Texts(kind) ==
    {Word("Data Structures"), <<Ch("\n"), Ch("Data Structures"), Ch(" ")>>, <<>>,
     Word("Sorry, I cannot help with that.")}
    \cup {Unfenced(v) : v \in Docs(kind)} \cup {JsonFenced(v) : v \in Docs(kind)}
    \cup {BareFenced(v) : v \in Docs(kind)} \cup {Padded(v) : v \in Docs(kind)}

Candidate(content) == Dict([content |-> content, finishReason |-> Str(Word("STOP"))])
GeminiBody(part) ==
    Dict([candidates |-> List(<<Candidate(Dict([parts |-> List(<<part>>)]))>>)])

GeminiOutcomes(kind) ==
    {TransportFailure("timeout"), TransportFailure("connection"),
     HttpResponse(500, NotJson), HttpResponse(429, Dict([error |-> Str(Word("quota"))])),
     HttpResponse(200, NotJson),
     HttpResponse(200, Dict(<<>>)),
     HttpResponse(200, Dict([candidates |-> List(<<>>)])),
     HttpResponse(200, Dict([candidates |->
         List(<<Dict([finishReason |-> Str(Word("SAFETY"))])>>)])),
     HttpResponse(200, Dict([candidates |-> List(<<Candidate(Dict(<<>>))>>)])),
     HttpResponse(200, Dict([candidates |->
         List(<<Candidate(Dict([parts |-> List(<<>>)]))>>)])),
     HttpResponse(200, GeminiBody(Dict([functionCall |-> Str(Word("f"))])))}
    \cup {HttpResponse(200, GeminiBody(Dict([text |-> Str(s)]))) : s \in Texts(kind)}

----------------------------------------------------------------------------
(* The state machine: one action per route, each handling one request.     *)

Init ==
    /\ route = "none"
    /\ data = None
    /\ youtube = NoCall
    /\ gemini = NoCall
    /\ calls = <<>>
    /\ video_info = NotCalled
    /\ gemini_ret = NotCalled
    /\ status = 0
    /\ body = None

\* the response leaves the view function; what the request did is recorded
Respond(name, d, r) ==
    /\ route' = name
    /\ data' = d
    /\ youtube' = r.youtube
    /\ gemini' = r.gemini
    /\ calls' = r.calls
    /\ video_info' = r.video_info
    /\ gemini_ret' = r.gemini_ret
    /\ status' = r.status
    /\ body' = r.body

\* no request is being handled
Idle == route = "none"

ExtractTitle ==
    /\ Idle
    /\ \E d \in RequestBodies, g \in GeminiOutcomes("text") :
        Respond("extract_title", d, extract_title_route(d, g))

ExtractTopicsReq ==
    /\ Idle
    /\ \E d \in RequestBodies, g \in GeminiOutcomes("topics") :
        Respond("extract_topics", d, extract_topics_route(d, g))

SuggestVideo ==
    /\ Idle
    /\ \E d \in RequestBodies, y \in YouTubeOutcomes, g \in GeminiOutcomes("video") :
        Respond("suggest_video", d, suggest_video_route(d, y, g))

GenerateNotes ==
    /\ Idle
    /\ \E d \in RequestBodies, g \in GeminiOutcomes("text") :
        Respond("generate_notes", d, generate_notes_route(d, g))

GenerateFlashcards ==
    /\ Idle
    /\ \E d \in RequestBodies, g \in GeminiOutcomes("flashcards") :
        Respond("generate_flashcards", d, generate_flashcards_route(d, g))

GenerateQuestions ==
    /\ Idle
    /\ \E d \in RequestBodies, g \in GeminiOutcomes("questions") :
        Respond("generate_questions", d, generate_questions_route(d, g))

\* the request is over: nothing of it is kept, the server waits for the next
NextRequest ==
    /\ ~Idle
    /\ Respond("none", None, Result(0, None, <<>>, NoCall, NoCall, NotCalled, NotCalled))

Next ==
    \/ ExtractTitle
    \/ ExtractTopicsReq
    \/ SuggestVideo
    \/ GenerateNotes
    \/ GenerateFlashcards
    \/ GenerateQuestions
    \/ NextRequest

Spec == Init /\ [][Next]_vars

----------------------------------------------------------------------------
(* Vocabulary of the properties.                                           *)

PostRoutes ==
    {"extract_title", "extract_topics", "suggest_video", "generate_notes",
     "generate_flashcards", "generate_questions"}

RequiredField == IF route \in {"extract_title", "extract_topics"} THEN "syllabus_text" ELSE "topic"

\* the request carries its required field, a non-empty text
FieldGiven ==
    /\ data.t = "dict"
    /\ RequiredField \in DOMAIN data.d
    /\ data.d[RequiredField].t = "str"
    /\ data.d[RequiredField].s # <<>>

Count(cs, api) == Cardinality({i \in DOMAIN cs : cs[i] = api})

\* the upstream answered 200 with the text s in the first part of the first candidate
Answered(resp, s) == resp = HttpResponse(200, GeminiBody(Dict([text |-> Str(s)])))

\* the routes that call call_gemini_api with a response_schema
SchemaRoutes ==
    {"extract_topics", "suggest_video", "generate_flashcards", "generate_questions"}

\* the upstream answered 200 with a completion text that holds no JSON document
UnparsableText(resp) ==
    \E s \in Texts("text") : (\A i \in DOMAIN s : s[i].u # "doc") /\ Answered(resp, s)

\* transport error, non-2xx status, or an expected field of the response missing
NoCompletionText(resp) ==
    \/ resp.net \in {"timeout", "connection"}
    \/ resp.net = "ok" /\ resp.http >= 400
    \/ resp.net = "ok" /\ resp.http = 200 /\
         ~\E s \in Texts("text") \cup Texts("topics") \cup Texts("video")
                    \cup Texts("flashcards") \cup Texts("questions") : Answered(resp, s)

----------------------------------------------------------------------------
(* C1: a request to any of the six POST handlers whose required text field *)
(* is missing or empty ends with HTTP 400 and a JSON body with an error    *)
(* field, and issues no outbound call.                                     *)
C1_MissingFieldIs400 ==
    (route \in PostRoutes /\ ~FieldGiven) =>
        /\ status = 400
        /\ body.t = "dict" /\ "error" \in DOMAIN body.d
        /\ calls = <<>>

(* C2: a request whose required field is present and non-empty ends with   *)
(* HTTP 200 and a JSON body, whatever the upstream does.                   *)
C2_GivenFieldIs200 ==
    (route \in PostRoutes /\ FieldGiven) => (status = 200 /\ body.t = "dict")

(* C3: call_gemini_api never raises into its caller, and every failure     *)
(* condition (transport error, non-2xx status, missing response field,     *)
(* completion text that is no JSON where a shape is expected) makes it     *)
(* return None.                                                            *)
C3_CompletionNeverRaises ==
    (gemini # NoCall) =>
        /\ gemini_ret.exc = "none"
        /\ NoCompletionText(gemini) => gemini_ret.val = None
        /\ (route \in SchemaRoutes /\ UnparsableText(gemini)) => gemini_ret.val = None

\* the title contains the keyword, letter case ignored
SameLetter(unit, letter) ==
    \/ unit = letter
    \/ unit.c \in DOMAIN UpperToLower /\ UpperToLower[unit.c] = letter.c

HasKeyword(title) ==
    \E kw \in {Lecture, Tutorial, Course} :
        \E i \in 0..(Len(title) - Len(kw)) :
            \A j \in 1..Len(kw) : SameLetter(title[i + j], kw[j])

\* the candidates of a search response: every item has a title and a video id
Candidates(resp) ==
    IF /\ resp.net = "ok" /\ resp.http = 200 /\ resp.json.t = "dict"
       /\ "items" \in DOMAIN resp.json.d
       /\ \A i \in DOMAIN resp.json.d.items.xs : HasIdAndTitle(resp.json.d.items.xs[i])
    THEN resp.json.d.items.xs
    ELSE <<>>

TitleAt(items, i) == items[i].d.snippet.d.title
UrlAt(items, i) == Str(Word("https://www.youtube.com/watch?v=") \o items[i].d.id.d.videoId.s)

(* C4: over a non-empty candidate list the selection is the first          *)
(* candidate whose title contains "lecture", "tutorial" or "course" in any *)
(* letter case, else the first candidate; title and url of the response    *)
(* are those of that one candidate.                                        *)
C4_FirstMatchWins ==
    (route = "suggest_video" /\ youtube # NoCall /\ Candidates(youtube) # <<>>) =>
        LET items == Candidates(youtube)
            hits == {i \in DOMAIN items : HasKeyword(TitleAt(items, i).s)}
            pick == IF hits = {} THEN 1 ELSE CHOOSE i \in hits : \A k \in hits : i <= k
        IN /\ video_info = Return(Dict([title |-> TitleAt(items, pick),
                                        url |-> UrlAt(items, pick)]))
           /\ status = 200
           /\ body = Dict([title |-> TitleAt(items, pick), url |-> UrlAt(items, pick)])

\* a keyword match in second place wins over the first, non-matching candidate
C4_Witness ==
    /\ route = "suggest_video"
    /\ Len(Candidates(youtube)) = 3
    /\ ~HasKeyword(TitleAt(Candidates(youtube), 1).s)
    /\ TitleAt(Candidates(youtube), 2) = Str(Chars(<<"X", " ", "L", "e", "c", "t", "u", "r", "e">>))
    /\ body = Dict([title |-> TitleAt(Candidates(youtube), 2),
                    url |-> Str(<<Ch("https://www.youtube.com/watch?v="), Ch("vid"), Ch("2")>>)])

\* the search gave an empty candidate list
EmptySearch ==
    /\ youtube.net = "ok" /\ youtube.http = 200 /\ youtube.json.t = "dict"
    /\ ("items" \in DOMAIN youtube.json.d => youtube.json.d.items.xs = <<>>)

(* C5: in suggest_video with a non-empty topic and an empty candidate list *)
(* the fallback completion is called exactly once; the response is its     *)
(* structured {title, url} result, and {"title": "Failed to suggest        *)
(* video", "url": "#"} when the fallback call fails.                       *)
C5_EmptySearchFallsBack ==
    (route = "suggest_video" /\ FieldGiven /\ EmptySearch) =>
        /\ calls = <<"youtube", "gemini">>
        /\ (\E v \in VideoDocs : DOMAIN v.d = {"title", "url"} /\
               (Answered(gemini, Unfenced(v)) \/ Answered(gemini, JsonFenced(v))))
             => (status = 200 /\ body = gemini_ret.val)
        /\ (NoCompletionText(gemini) \/ UnparsableText(gemini))
             => (status = 200 /\ body = FailedToSuggest)

\* an entry of the upstream array with a present, non-empty topic
Usable(entry) ==
    "topic" \in DOMAIN entry.d /\ entry.d.topic.t = "str" /\ entry.d.topic.s # <<>>

IsArrayOfObjects(v) == v.t = "list" /\ \A i \in DOMAIN v.xs : v.xs[i].t = "dict"

(* C6: for an upstream array of objects extract_topics returns the topic   *)
(* values of the entries with a present, non-empty topic, in upstream      *)
(* order, and nothing else; for an absent upstream result it returns an    *)
(* empty topic list.                                                       *)
C6_TopicsFiltered ==
    (route = "extract_topics" /\ gemini_ret.exc = "none") =>
        /\ IsArrayOfObjects(gemini_ret.val) =>
             LET kept == SelectSeq(gemini_ret.val.xs, Usable)
             IN /\ status = 200
                /\ body = Dict([topics |-> List([i \in DOMAIN kept |-> kept[i].d.topic])])
        /\ gemini_ret.val = None => (status = 200 /\ body = Dict([topics |-> List(<<>>)]))

\* [{"topic":"Graphs"},{},{"topic":"Trees"}] gives ["Graphs","Trees"]
C6_Witness ==
    /\ route = "extract_topics"
    /\ Answered(gemini, Unfenced(List(<<Dict([topic |-> Graphs]), Dict(<<>>),
                                       Dict([topic |-> Trees])>>)))
    /\ body = Dict([topics |-> List(<<Graphs, Trees>>)])

(* C7: with an expected shape, a JSON payload wrapped in markdown code     *)
(* fences is parsed to the same value as the payload without fences.       *)
C7_FencedParsesLikeUnfenced ==
    (route \in SchemaRoutes /\ gemini # NoCall) =>
        \A kind \in {"topics", "video", "flashcards", "questions"} :
            \A v \in Docs(kind) :
                (Answered(gemini, JsonFenced(v)) \/ Answered(gemini, BareFenced(v)))
                    => gemini_ret =
                         call_gemini_api(
                             HttpResponse(200, GeminiBody(Dict([text |-> Str(Unfenced(v))]))),
                             TRUE)

(* C8: every 200 response of generate_flashcards carries flashcards as an  *)
(* array whose every element has a front and a back: upstream entries      *)
(* missing one of them are filtered out, an absent upstream result gives   *)
(* the empty list.                                                         *)
C8_FlashcardsShape ==
    (/\ route = "generate_flashcards" /\ status = 200
     /\ (gemini_ret.val = None \/ IsArrayOfObjects(gemini_ret.val))) =>
        /\ body.d.flashcards.t = "list"
        /\ \A i \in DOMAIN body.d.flashcards.xs :
             /\ body.d.flashcards.xs[i].t = "dict"
             /\ {"front", "back"} \subseteq DOMAIN body.d.flashcards.xs[i].d

IsArrayOfStrings(v) == v.t = "list" /\ v.xs # <<>> /\ \A i \in DOMAIN v.xs : v.xs[i].t = "str"

(* C9: generate_questions with a non-empty topic answers 200 with          *)
(* questions equal to the upstream array when the completion returns a     *)
(* non-empty array of strings, and 200 with an empty list when the         *)
(* upstream result is absent.                                              *)
C9_QuestionsPassThrough ==
    (route = "generate_questions" /\ FieldGiven) =>
        /\ \A qs \in SeqsUpTo(QuestionEntries, MaxEntries) \ {<<>>} :
             (Answered(gemini, Unfenced(List(qs))) \/ Answered(gemini, JsonFenced(List(qs)))
                \/ Answered(gemini, Padded(List(qs))))
               => (status = 200 /\ body = Dict([questions |-> List(qs)]))
        /\ (gemini_ret.exc = "none" /\ IsArrayOfStrings(gemini_ret.val))
               => (status = 200 /\ body = Dict([questions |-> gemini_ret.val]))
        /\ (gemini_ret.exc = "none" /\ gemini_ret.val = None)
               => (status = 200 /\ body = Dict([questions |-> List(<<>>)]))

\* a stub upstream returning ["Q1?","Q2?"]
C9_Witness ==
    /\ route = "generate_questions"
    /\ Answered(gemini, Unfenced(List(<<Str(Word("Q1?")), Str(Word("Q2?"))>>)))
    /\ status = 200
    /\ body = Dict([questions |-> List(<<Str(Word("Q1?")), Str(Word("Q2?"))>>)])

(* C10: nothing is retried: a request calls each outbound service at most  *)
(* once, whatever the outcome.  In suggest_video the search comes first    *)
(* and the completion call is made only when the search returned no        *)
(* candidate; each other handler makes exactly one completion call for a   *)
(* request that passes validation, and never a search call.                *)
C10_NoRetry ==
    /\ Count(calls, "youtube") <= 1
    /\ Count(calls, "gemini") <= 1
    /\ route = "suggest_video" =>
         /\ calls \in {<<>>, <<"youtube">>, <<"youtube", "gemini">>}
         /\ FieldGiven => calls # <<>>
         /\ "gemini" \in {calls[i] : i \in DOMAIN calls} <=> video_info = Return(None)
    /\ route \in PostRoutes \ {"suggest_video"} =>
         /\ FieldGiven => calls = <<"gemini">>
         /\ ~FieldGiven => calls = <<>>

\* the search found nothing and the completion call timed out: one call each
C10_Witness ==
    /\ route = "suggest_video"
    /\ gemini = TransportFailure("timeout")
    /\ calls = <<"youtube", "gemini">>
    /\ body = FailedToSuggest

====
